---- MODULE Spec2Model ----
(***************************************************************************)
(* A model of the two programs of UserName_Gatherer_Generator:             *)
(*   input_gatherer.py      workers expand name x surname pairs, write a   *)
(*                          shared checkpoint file after every pair and    *)
(*                          append their variants to two output files;     *)
(*   username_generator.py  workers expand pairs into three category sets, *)
(*                          hand them to the merger over a queue, and the  *)
(*                          merger writes three sorted files.              *)
(* A string is a sequence of code points (Python compares strings code     *)
(* point by code point), a file of lines is a sequence of strings and the  *)
(* checkpoint file is one string.                                          *)
(***************************************************************************)
EXTENDS Integers, Sequences, FiniteSets, TLC

\* ------------------------------------------------------------------ bounds
MaxNames == 2
MaxSurnames == 2
MaxProc == 2
MaxRuns == 2

\* The names and surnames the inputs are drawn from: "a", "b" and "x", "y".
NameSet == {<<97>>, <<98>>}
SurnameSet == {<<120>>, <<121>>}

SeqsUpTo(S, n) == UNION {[1..k -> S] : k \in 0..n}

\* ----------------------------------------------------------------- strings
\* Python's < on str: lexicographic by code point, a proper prefix is smaller.
RECURSIVE StrLess(_, _)
StrLess(a, b) ==
    IF a = <<>> THEN b # <<>>
    ELSE IF b = <<>> THEN FALSE
    ELSE IF a[1] # b[1] THEN a[1] < b[1]
    ELSE StrLess(Tail(a), Tail(b))

\* The elements of a set, each tagged with its rank, in the order of the ranks.
ByRank(ranked) ==
    [k \in 1..Cardinality(ranked) |-> (CHOOSE p \in ranked : p[1] = k - 1)[2]]

\* A set of code points in ascending order.
SortInts(C) ==
    CHOOSE sorted \in
        {ByRank(ranked) :
            ranked \in {{<<Cardinality({d \in C : d < c}), c>> : c \in C}}} : TRUE

RECURSIVE ConcatAll(_)
ConcatAll(ss) == IF ss = <<>> THEN <<>> ELSE Head(ss) \o ConcatAll(Tail(ss))

\* Every string of a list with the code point c put in front.
Prefixed(c, sorted) == [k \in 1..Len(sorted) |-> <<c>> \o sorted[k]]

\* sorted(S) for a set S of strings: the empty string first, then, by ascending
\* first code point, the strings that start with it, themselves in the order of
\* what follows it. (Each intermediate list is bound once, as the one element of
\* a set.)
RECURSIVE SortSet(_)
SortSet(S) ==
    IF S = {} THEN <<>>
    ELSE LET rest == S \ {<<>>}
             Group(c) ==
                 CHOOSE g \in
                     {Prefixed(c, sub) :
                         sub \in {SortSet({Tail(s) : s \in {t \in rest : t[1] = c}})}}
                     : TRUE
             Groups ==
                 CHOOSE gs \in
                     {[k \in 1..Len(heads) |-> Group(heads[k])] :
                         heads \in {SortInts({s[1] : s \in rest})}} : TRUE
         IN  (IF <<>> \in S THEN << <<>> >> ELSE <<>>)
                \o (CHOOSE all \in {ConcatAll(gs) : gs \in {Groups}} : TRUE)

SeqToSet(s) == {s[k] : k \in 1..Len(s)}

\* `c in s` for a one-character c.
Contains(s, c) == \E k \in 1..Len(s) : s[k] = c

\* str.strip(): leading and trailing whitespace (space, tab, newline, CR) removed.
IsSpace(c) == c \in {32, 9, 10, 13}

RECURSIVE LStrip(_)
LStrip(s) == IF s # <<>> /\ IsSpace(s[1]) THEN LStrip(Tail(s)) ELSE s

RECURSIVE RStrip(_)
RStrip(s) ==
    IF s # <<>> /\ IsSpace(s[Len(s)]) THEN RStrip(SubSeq(s, 1, Len(s) - 1)) ELSE s

Strip(s) == RStrip(LStrip(s))

\* str.split(','): the fields between the commas (always at least one field).
RECURSIVE SplitComma(_)
SplitComma(s) ==
    IF ~Contains(s, 44) THEN <<s>>
    ELSE LET k == CHOOSE n \in 1..Len(s) :
                      s[n] = 44 /\ \A m \in 1..(n - 1) : s[m] # 44
         IN  <<SubSeq(s, 1, k - 1)>> \o SplitComma(SubSeq(s, k + 1, Len(s)))

\* f"{name},{surname}"
CheckpointLine(name, surname) == name \o <<44>> \o surname

\* ---------------------------------------------------------- text transforms
MAX_LENGTH == 32

SEPARATORS == << <<46>>, <<95>>, <<45>>, <<126>>, <<>>, <<95, 95>>, <<45, 45>> >>

Min(a, b) == IF a < b THEN a ELSE b

Max(a, b) == IF a < b THEN b ELSE a

RECURSIVE Flatten(_)
Flatten(ss) == IF ss = <<>> THEN <<>> ELSE Head(ss) \o Flatten(Tail(ss))

\* str.lower() on the modelled characters: A-Z become a-z.
LowerChar(c) == IF c \in 65..90 THEN c + 32 ELSE c

Lower(s) == [k \in 1..Len(s) |-> LowerChar(s[k])]

\* unicodedata.normalize('NFKD', c) on the modelled characters: e-acute (233)
\* decomposes into e and the combining acute accent (769); every other modelled
\* character (ASCII, and the euro sign 8364) is its own decomposition.
NFKDChar(c) == IF c = 233 THEN <<101, 769>> ELSE <<c>>

\* encode('ascii', 'ignore'): code points above 127 are dropped.
AsciiIgnore(s) == SelectSeq(s, LAMBDA c : c < 128)

normalize(text) ==
    Lower(AsciiIgnore(Flatten([k \in 1..Len(text) |-> NFKDChar(text[k])])))

\* str.maketrans("aeiost", "431057")
LeetChar(c) ==
    CASE c = 97 -> 52
      [] c = 101 -> 51
      [] c = 105 -> 49
      [] c = 111 -> 48
      [] c = 115 -> 53
      [] c = 116 -> 55
      [] OTHER -> c

to_leet(text) == [k \in 1..Len(text) |-> LeetChar(text[k])]

\* A formatting that lowercases and does not cut.
FormatNoLimit(username) == Lower(username)

\* username[:MAX_LENGTH].lower()
format_and_limit(username) ==
    Lower(SubSeq(username, 1, Min(Len(username), MAX_LENGTH)))

\* build_suffixes: years, words with their leet forms, pets; list(set(...)) keeps
\* one of each in an unspecified order, so the result is a set.
build_suffixes(pet_names, years, words) ==
    SeqToSet(years) \cup SeqToSet(words)
        \cup {to_leet(words[k]) : k \in 1..Len(words)} \cup SeqToSet(pet_names)

\* ------------------------------------------------------- generate_usernames
\* name[0] / surname[0] raise IndexError on an empty normalized string.
GenerateRaises(name, surname) ==
    normalize(name) = <<>> \/ normalize(surname) = <<>>

BaseVariants(name, surname) ==
    LET n == normalize(name)
        s == normalize(surname)
        initial_n == <<n[1]>>
        initial_s == <<s[1]>>
    IN  << <<n, s>>, <<s, n>>, <<initial_n, s>>, <<n, initial_s>>,
           <<initial_n, initial_s>>, <<to_leet(n), to_leet(s)>>,
           <<n, <<>> >>, <<s, <<>> >> >>

\* A classification that takes only a separator with a "." as formal.
IsFormalSepDotOnly(sep) == Contains(sep, 46)

\* "." in sep or sep == ""
IsFormalSep(sep) == Contains(sep, 46) \/ sep = <<>>

\* The three sets generate_usernames returns (defined when it does not raise).
generate_usernames(name, surname, suffixes) ==
    LET bv == BaseVariants(name, surname)
        BS == (1..Len(bv)) \X (1..Len(SEPARATORS))
        a(p) == bv[p[1]][1]
        b(p) == bv[p[1]][2]
        sep(p) == SEPARATORS[p[2]]
        base(p) == format_and_limit(a(p) \o sep(p) \o b(p))
    IN  [formal  |-> {base(p) : p \in {q \in BS : IsFormalSep(sep(q))}},
         neutral |-> {base(p) : p \in {q \in BS : ~IsFormalSep(sep(q))}}
                       \cup {format_and_limit(base(p[1]) \o p[2]) :
                                p \in BS \X suffixes},
         gamer   |-> {format_and_limit(sep(p[1]) \o to_leet(a(p[1])) \o sep(p[1])
                                          \o p[2] \o sep(p[1])) :
                                p \in BS \X suffixes}]

\* One pass of the separator loop before its suffix loop: the base string and
\* the category set it is added to.
BaseOf(a, b, sep) == format_and_limit(a \o sep \o b)

AddBase(results, a, b, sep) ==
    IF IsFormalSep(sep)
    THEN [results EXCEPT !.formal = @ \cup {BaseOf(a, b, sep)}]
    ELSE [results EXCEPT !.neutral = @ \cup {BaseOf(a, b, sep)}]

\* A suffix pass that keeps only the gamer string of the suffix added last.
AddSuffixKeepLast(results, base, a, sep, suffix) ==
    [results EXCEPT
        !.neutral = @ \cup {format_and_limit(base \o suffix)},
        !.gamer = {format_and_limit(sep \o to_leet(a) \o sep \o suffix \o sep)}]

\* One pass of the suffix loop: combined joins neutral, gamer_style joins gamer.
AddSuffix(results, base, a, sep, suffix) ==
    [results EXCEPT
        !.neutral = @ \cup {format_and_limit(base \o suffix)},
        !.gamer = @ \cup {format_and_limit(sep \o to_leet(a) \o sep \o suffix \o sep)}]

Categories == {"formal", "neutral", "gamer"}

EmptyResult == [c \in Categories |-> {}]

\* A merge that keeps only the result merged last.
MergeKeepLast(r1, r2) == r2

\* result[cat].update(categories[cat]) / all_results[k].update(result[k])
Merge(r1, r2) == [c \in Categories |-> r1[c] \cup r2[c]]

\* ------------------------------------------------------------- partitioning
\* chunk_size = max(1, len(names) // num_proc)
ChunkSize(n, np) == Max(1, n \div np)

\* A partition that stops at the last full chunk and drops the rest of the names.
ChunksFullOnly(ns, np) ==
    LET cs == Max(1, Len(ns) \div np)
    IN  [c \in 1..(Len(ns) \div cs) |-> SubSeq(ns, (c - 1) * cs + 1, c * cs)]

\* chunks = [names[i:i + chunk_size] for i in range(0, len(names), chunk_size)]
Chunks(ns, np) ==
    LET cs == ChunkSize(Len(ns), np)
        count == (Len(ns) + cs - 1) \div cs
    IN  [c \in 1..count |-> SubSeq(ns, (c - 1) * cs + 1, Min(c * cs, Len(ns)))]

\* The arguments of the processes combine starts: one per chunk, each with the
\* whole surname list.
SpawnArgs(cks, sns) == [c \in 1..Len(cks) |-> [names |-> cks[c], surnames |-> sns]]

\* ---------------------------------------------------------- input_gatherer
\* generate_variants(name, surname) is called by worker and defined nowhere in
\* the two files. It is taken from the spec's Variant Expander (4.3) for the
\* pair's first base and no suffix: the normalized name and surname joined by
\* each separator and cut to the length limit (normalize_unicode, SEPARATORS and
\* MAX_USERNAME_LENGTH of input_gatherer.py are those of username_generator.py).
\* It is a function of the pair alone, and gives both kinds of username worker
\* tells apart: with a "." and without.
generate_variants(name, surname) ==
    {format_and_limit(normalize(name) \o SEPARATORS[k] \o normalize(surname)) :
        k \in 1..Len(SEPARATORS)}

\* A skip test that also passes over the checkpoint pair itself.
SkipThroughCheckpoint(name, surname, checkpoint_name, checkpoint_surname) ==
    \/ StrLess(name, checkpoint_name)
    \/ name = checkpoint_name /\ ~StrLess(checkpoint_surname, surname)

\* The skip test of worker's loop.
Skip(name, surname, checkpoint_name, checkpoint_surname) ==
    \/ StrLess(name, checkpoint_name)
    \/ name = checkpoint_name /\ StrLess(surname, checkpoint_surname)

\* read_file: the non-blank lines, stripped.
read_file(lines) ==
    LET stripped == [k \in 1..Len(lines) |-> Strip(lines[k])]
    IN  SelectSeq(stripped, LAMBDA l : l # <<>>)

\* The lines write_unique_file's loop appends: each username not yet in
\* existing_usernames, which grows as the loop goes.
RECURSIVE NewLines(_, _)
NewLines(usernames, existing) ==
    IF usernames = <<>> THEN <<>>
    ELSE IF Head(usernames) \in existing THEN NewLines(Tail(usernames), existing)
    ELSE <<Head(usernames)>>
            \o NewLines(Tail(usernames), existing \cup {Head(usernames)})

\* A write of data at offset 0 of a file holding old (a file opened with "w" by
\* another process in between keeps what lies past the written bytes).
Overwrite(old, data) ==
    IF Len(data) >= Len(old) THEN data
    ELSE data \o SubSeq(old, Len(data) + 1, Len(old))

VARIABLES
    names,          \* the name list of the run
    surnames,       \* the surname list of the run
    num_proc,       \* multiprocessing.cpu_count()
    chunks,         \* the chunks combine cut the names into
    gpc,            \* input_gatherer.combine: idle, running, done, crashed, failed
    checkpoint,     \* CHECKPOINT_FILE: [exists, text]
    cutoff,         \* <<checkpoint_name, checkpoint_surname>> given to the workers
    gfiles,         \* formal_usernames.txt and gamer_usernames.txt, as lines
    gw,             \* the worker processes of input_gatherer
    runs,           \* how many times combine was started
    given,          \* history: the values write_checkpoint was called with
    persisted,      \* history: the values a write_checkpoint call completed with
    start_text,     \* history: what read_checkpoint returned as the run started
    sources,        \* username_generator: the pets, years and words lists
    suffixes,       \* build_suffixes(pets, years, words)
    upc,            \* username_generator.combine: idle, collect, write_<cat>, done
    uw,             \* the worker processes of username_generator
    result_queue,   \* the results put and not yet taken
    all_results,    \* the merger's union of the results it took
    received,       \* how many results the merger took
    ufiles,         \* formal.txt, neutral.txt and gamer.txt, as lines
    prior,          \* history: the output files as the run started
    infiles,        \* username_generator: the five input files, [exists, lines]
    e_name,         \* generate_usernames: the name argument
    e_surname,      \* the surname argument
    e_suffixes,     \* the suffix collection build_suffixes made
    e_order,        \* the order list(set(...)) gave the suffixes for this call
    e_calls,        \* how many times generate_usernames was called
    e_pc,           \* idle, base, suffix, returned, raised
    e_bases,        \* base_variants
    e_i,            \* the place of (a, b) in base_variants
    e_j,            \* the place of sep in SEPARATORS
    e_n,            \* the place of suffix in the suffix list
    e_results,      \* results
    e_first         \* history: <<order, results>> of the first call

gvars == <<gpc, checkpoint, cutoff, gfiles, gw, given, persisted, start_text>>

uvars == <<sources, suffixes, upc, uw, result_queue, all_results, received, ufiles,
           prior, infiles>>

evars == <<e_name, e_surname, e_suffixes, e_order, e_calls, e_pc, e_bases, e_i,
           e_j, e_n, e_results, e_first>>

vars == <<names, surnames, num_proc, chunks, runs, gvars, uvars, evars>>

\* No call of generate_usernames is followed step by step.
ENone ==
    /\ e_name = <<>> /\ e_surname = <<>> /\ e_suffixes = {} /\ e_order = <<>>
    /\ e_calls = 0 /\ e_pc = "idle" /\ e_bases = <<>>
    /\ e_i = 1 /\ e_j = 1 /\ e_n = 1
    /\ e_results = EmptyResult
    /\ e_first = <<>>

GFileNames == {"formal", "gamer"}

\* NAME_FILE, SURNAME_FILE, PETS_FILE, WORDS_FILE, YEARS_FILE
InputFiles == {"names", "surnames", "pets", "words", "years"}

Missing == [exists |-> FALSE, lines |-> <<>>]

FileOf(lines) == [exists |-> TRUE, lines |-> lines]

NoInputFiles == [f \in InputFiles |-> Missing]

\* username_generator.read_file on a file that exists: the non-blank lines,
\* stripped and lowercased.
U_read_file(lines) ==
    LET stripped == [k \in 1..Len(lines) |-> Lower(Strip(lines[k]))]
    IN  SelectSeq(stripped, LAMBDA l : l # <<>>)

\* read_checkpoint()
read_checkpoint == IF checkpoint.exists THEN Strip(checkpoint.text) ELSE <<>>

\* The position of worker w in its loops: the k-th pair of its chunk x surnames.
\* `for name in names: for surname in surnames` over the worker's own arguments.
GTotal(w) == Len(gw[w].names) * Len(gw[w].surnames)

GNameIdx(w, k) == ((k - 1) \div Len(gw[w].surnames)) + 1

GSurnameIdx(w, k) == ((k - 1) % Len(gw[w].surnames)) + 1

GName(w, k) == gw[w].names[GNameIdx(w, k)]

GSurname(w, k) == gw[w].surnames[GSurnameIdx(w, k)]

\* The place of a chunk's i-th name in the name list.
GlobalIdx(w, i) == (w - 1) * ChunkSize(Len(names), num_proc) + i

\* formal: "." in v; gamer: not "." in v, over sorted(set(all_variants)). The
\* list all_variants is read only through set(all_variants) and is kept as that
\* set.
Usernames(f, all_variants) ==
    LET sorted == SortSet(all_variants)
    IN  IF f = "formal" THEN SelectSeq(sorted, LAMBDA v : Contains(v, 46))
        ELSE SelectSeq(sorted, LAMBDA v : ~Contains(v, 46))

GInit ==
    /\ infiles = NoInputFiles
    /\ ENone
    /\ names \in SeqsUpTo(NameSet, MaxNames)
    /\ surnames \in SeqsUpTo(SurnameSet, MaxSurnames)
    /\ num_proc \in 1..MaxProc
    /\ chunks = <<>>
    /\ gpc = "idle"
    /\ checkpoint = [exists |-> FALSE, text |-> <<>>]
    /\ cutoff = << <<>>, <<>> >>
    /\ gfiles = [f \in GFileNames |-> <<>>]
    /\ gw = <<>>
    /\ runs = 0
    /\ given = {}
    /\ persisted = {}
    /\ start_text = <<>>
    /\ sources = [pets |-> <<>>, years |-> <<>>, words |-> <<>>]
    /\ suffixes = {}
    /\ upc = "idle"
    /\ uw = <<>>
    /\ result_queue = <<>>
    /\ all_results = EmptyResult
    /\ received = 0
    /\ ufiles = [c \in Categories |-> <<>>]
    /\ prior = [c \in Categories |-> <<>>]

\* combine(): read and split the checkpoint, cut the names into chunks and start
\* one worker per chunk. A non-empty checkpoint that does not split into two
\* fields fails the unpacking (ValueError) before any worker is started.
G_Combine ==
    /\ gpc \in {"idle", "done", "crashed"}
    /\ runs < MaxRuns
    /\ runs' = runs + 1
    /\ LET last_checkpoint == read_checkpoint
           fields == SplitComma(last_checkpoint)
       IN  /\ start_text' = last_checkpoint
           /\ IF last_checkpoint # <<>> /\ Len(fields) # 2
              THEN /\ gpc' = "failed"
                   /\ UNCHANGED <<chunks, cutoff, gw>>
              ELSE /\ cutoff' = IF last_checkpoint # <<>>
                                THEN <<fields[1], fields[2]>>
                                ELSE << <<>>, <<>> >>
                   /\ chunks' = Chunks(names, num_proc)
                   /\ gw' = [w \in 1..Len(chunks') |->
                                [pc |-> "loop", k |-> 1,
                                 names |-> SpawnArgs(chunks', surnames)[w].names,
                                 surnames |-> SpawnArgs(chunks', surnames)[w].surnames,
                                 all_variants |-> {}, existing |-> {},
                                 log |-> <<>>]]
                   /\ gpc' = "running"
    /\ UNCHANGED <<names, surnames, num_proc, checkpoint, gfiles, given, persisted,
                   uvars, evars>>

\* worker, a pair the skip test passes over.
W_Skip(w) ==
    /\ gpc = "running" /\ gw[w].pc = "loop" /\ gw[w].k <= GTotal(w)
    /\ Skip(GName(w, gw[w].k), GSurname(w, gw[w].k), cutoff[1], cutoff[2])
    /\ gw' = [gw EXCEPT ![w].k = @ + 1]
    /\ UNCHANGED <<names, surnames, num_proc, chunks, gpc, checkpoint, cutoff,
                   gfiles, runs, given, persisted, start_text, uvars, evars>>

\* worker, a processed pair: its variants join all_variants and write_checkpoint
\* opens CHECKPOINT_FILE with "w", which truncates it.
W_Expand(w) ==
    /\ gpc = "running" /\ gw[w].pc = "loop" /\ gw[w].k <= GTotal(w)
    /\ LET name == GName(w, gw[w].k)
           surname == GSurname(w, gw[w].k)
       IN  /\ ~Skip(name, surname, cutoff[1], cutoff[2])
           /\ gw' = [gw EXCEPT
                       ![w].all_variants = @ \cup generate_variants(name, surname),
                       ![w].log = Append(@, <<GlobalIdx(w, GNameIdx(w, gw[w].k)),
                                              GSurnameIdx(w, gw[w].k)>>),
                       ![w].pc = "ck_write"]
           /\ given' = given \cup {CheckpointLine(name, surname)}
    /\ checkpoint' = [exists |-> TRUE, text |-> <<>>]
    /\ UNCHANGED <<names, surnames, num_proc, chunks, gpc, cutoff, gfiles, runs,
                   persisted, start_text, uvars, evars>>

\* write_checkpoint, the write reaching the file as it is closed.
W_WriteCheckpoint(w) ==
    /\ gpc = "running" /\ gw[w].pc = "ck_write"
    /\ LET line == CheckpointLine(GName(w, gw[w].k), GSurname(w, gw[w].k))
       IN  /\ checkpoint' = [checkpoint EXCEPT !.text = Overwrite(@, line)]
           /\ persisted' = persisted \cup {line}
    /\ gw' = [gw EXCEPT ![w].k = @ + 1, ![w].pc = "loop"]
    /\ UNCHANGED <<names, surnames, num_proc, chunks, gpc, cutoff, gfiles, runs,
                   given, start_text, uvars, evars>>

\* write_unique_file, its read of the file: existing_usernames. The formal file is
\* read as the loops end, the gamer file once the formal file is written.
W_ReadFile(w, f) ==
    /\ gpc = "running"
    /\ \/ f = "formal" /\ gw[w].pc = "loop" /\ gw[w].k > GTotal(w)
       \/ f = "gamer" /\ gw[w].pc = "gamer_read"
    /\ gw' = [gw EXCEPT ![w].existing = SeqToSet(read_file(gfiles[f])),
                        ![w].pc = IF f = "formal" THEN "formal_append"
                                  ELSE "gamer_append"]
    /\ UNCHANGED <<names, surnames, num_proc, chunks, gpc, checkpoint, cutoff,
                   gfiles, runs, given, persisted, start_text, uvars, evars>>

\* write_unique_file, its appends reaching the file (opened with "a") as it is
\* closed. Its locals end with it, and the worker's with the worker.
W_AppendFile(w, f) ==
    /\ gpc = "running"
    /\ \/ f = "formal" /\ gw[w].pc = "formal_append"
       \/ f = "gamer" /\ gw[w].pc = "gamer_append"
    /\ gfiles' = [gfiles EXCEPT
                    ![f] = @ \o NewLines(Usernames(f, gw[w].all_variants),
                                         gw[w].existing)]
    /\ gw' = [gw EXCEPT ![w].pc = IF f = "formal" THEN "gamer_read" ELSE "done",
                        ![w].existing = {},
                        ![w].all_variants = IF f = "formal" THEN @ ELSE {}]
    /\ UNCHANGED <<names, surnames, num_proc, chunks, gpc, checkpoint, cutoff,
                   runs, given, persisted, start_text, uvars, evars>>

\* combine, every p.join() returned.
G_Join ==
    /\ gpc = "running"
    /\ \A w \in DOMAIN gw : gw[w].pc = "done"
    /\ gpc' = "done"
    /\ UNCHANGED <<names, surnames, num_proc, chunks, checkpoint, cutoff, gfiles,
                   gw, runs, given, persisted, start_text, uvars, evars>>

\* The run is killed at any step, its processes with it: what is left is what
\* the files hold.
G_Crash ==
    /\ gpc = "running"
    /\ gpc' = "crashed"
    /\ gw' = <<>>
    /\ chunks' = <<>>
    /\ UNCHANGED <<names, surnames, num_proc, checkpoint, cutoff, gfiles, runs,
                   given, persisted, start_text, uvars, evars>>

GNext ==
    \/ G_Combine
    \/ G_Join
    \/ G_Crash
    \/ \E w \in DOMAIN gw : W_Skip(w)
    \/ \E w \in DOMAIN gw : W_Expand(w)
    \/ \E w \in DOMAIN gw : W_WriteCheckpoint(w)
    \/ \E w \in DOMAIN gw : \E f \in GFileNames : W_ReadFile(w, f)
    \/ \E w \in DOMAIN gw : \E f \in GFileNames : W_AppendFile(w, f)

SpecGather == GInit /\ [][GNext]_vars

\* ------------------------------------------------- input_gatherer: properties
\* (n, s) is strictly before (n1, s1) in the lexicographic order of pairs.
PairBefore(n, s, n1, s1) == StrLess(n, n1) \/ (n = n1 /\ StrLess(s, s1))

AllPairs == (1..Len(names)) \X (1..Len(surnames))

GLines(f) == SeqToSet(gfiles[f])

NoRepeats(s) == \A i, j \in 1..Len(s) : s[i] = s[j] => i = j

\* How many times the workers of this run expanded the pair at place p of the
\* two lists.
Expansions(p) ==
    Cardinality({e \in {<<w, i>> \in (DOMAIN gw) \X (1..Len(names) * Len(surnames)) :
                            i <= Len(gw[w].log)} :
                    gw[e[1]].log[e[2]] = p})

\* C1: every pair that is lexicographically before the stored checkpoint has all
\* of its variants in the output files.
C1_CheckpointedPairsInOutput ==
    LET fields == SplitComma(read_checkpoint)
    IN  (checkpoint.exists /\ Len(fields) = 2) =>
            \A p \in AllPairs :
                PairBefore(names[p[1]], surnames[p[2]], fields[1], fields[2]) =>
                    generate_variants(names[p[1]], surnames[p[2]])
                        \subseteq (GLines("formal") \cup GLines("gamer"))

\* How many times the workers of this run expanded the pair of values (n, s).
ValueExpansions(n, s) ==
    Cardinality({e \in {<<w, i>> \in (DOMAIN gw) \X (1..Len(names) * Len(surnames)) :
                            i <= Len(gw[w].log)} :
                    /\ names[gw[e[1]].log[e[2]][1]] = n
                    /\ surnames[gw[e[1]].log[e[2]][2]] = s})

C3_CheckpointReadAllOrNothing ==
    \/ read_checkpoint = <<>> /\ persisted = {}
    \/ read_checkpoint \in given

\* C4: no output file holds the same line twice.
C4_NoDuplicateLines == \A f \in GFileNames : NoRepeats(gfiles[f])

\* C6: the checkpoint values one worker writes are non-decreasing in the
\* lexicographic order of (name, surname).
C6_CheckpointWritesNonDecreasing ==
    \A w \in DOMAIN gw :
        \A i, j \in 1..Len(gw[w].log) :
            i < j => ~PairBefore(names[gw[w].log[j][1]], surnames[gw[w].log[j][2]],
                                 names[gw[w].log[i][1]], surnames[gw[w].log[i][2]])

\* C7: the checkpoint writes are serialised: no two workers are inside
\* write_checkpoint (between its open and its close) at the same time, or else
\* no two workers write to the same checkpoint store.
C7_CheckpointWritesSerialised ==
    gpc = "running" =>
        \/ Cardinality({w \in DOMAIN gw : gw[w].pc = "ck_write"}) <= 1
        \/ Cardinality({w \in DOMAIN gw : gw[w].log # <<>>}) <= 1

\* The lines of a file are in ascending lexicographic order.
InOrder(lines) == \A k \in 1..(Len(lines) - 1) : ~StrLess(lines[k + 1], lines[k])

\* C13: after a run completes, the lines of each output file are in
\* lexicographic order, with several workers and with lines of an earlier run.
C13_OutputFilesInOrder ==
    /\ gpc = "done" => \A f \in GFileNames : InOrder(gfiles[f])
    /\ upc = "done" => \A c \in Categories : InOrder(ufiles[c])

\* ------------------------------------------- input_gatherer: a stored checkpoint
\* What CHECKPOINT_FILE may hold as combine starts: "b,x", "a,y"; "ax" (no
\* comma), "a,x,y" (two commas); "a," (no surname), ",x" (no name) and ",".
CheckpointTexts ==
    { <<98, 44, 120>>, <<97, 44, 121>>, <<97, 120>>, <<97, 44, 120, 44, 121>>,
      <<97, 44>>, <<44, 120>>, <<44>> }

\* combine started on the names "a", "b" with a checkpoint file left by an
\* earlier process, or with none.
RInit ==
    /\ infiles = NoInputFiles
    /\ ENone
    /\ names = << <<97>>, <<98>> >>
    /\ surnames \in {<< <<120>> >>, << <<120>>, <<121>> >>}
    /\ num_proc \in 1..MaxProc
    /\ checkpoint \in {[exists |-> FALSE, text |-> <<>>]}
                        \cup {[exists |-> TRUE, text |-> t] : t \in CheckpointTexts}
    /\ chunks = <<>>
    /\ gpc = "idle"
    /\ cutoff = << <<>>, <<>> >>
    /\ gfiles = [f \in GFileNames |-> <<>>]
    /\ gw = <<>>
    /\ runs = 0
    /\ given = {}
    /\ persisted = {}
    /\ start_text = <<>>
    /\ sources = [pets |-> <<>>, years |-> <<>>, words |-> <<>>]
    /\ suffixes = {}
    /\ upc = "idle"
    /\ uw = <<>>
    /\ result_queue = <<>>
    /\ all_results = EmptyResult
    /\ received = 0
    /\ ufiles = [c \in Categories |-> <<>>]
    /\ prior = [c \in Categories |-> <<>>]

SpecResume == RInit /\ [][GNext]_vars

\* A 'name,surname' record: exactly one comma, between a name and a surname.
WellFormed(text) ==
    LET fields == SplitComma(text)
    IN  Len(fields) = 2 /\ fields[1] # <<>> /\ fields[2] # <<>>

\* C14: a run that found a non-empty checkpoint that is not a well-formed
\* 'name,surname' record has failed with no worker started and with the
\* checkpoint and the output files as they were; the value was not taken as a
\* checkpoint pair.
C14_MalformedCheckpointFails ==
    (runs = 1 /\ start_text # <<>> /\ ~WellFormed(start_text)) =>
        /\ gpc = "failed"
        /\ gw = <<>>
        /\ checkpoint = [exists |-> TRUE, text |-> start_text]
        /\ \A f \in GFileNames : gfiles[f] = <<>>

\* ------------------------------------------------------ username_generator
\* The names of a run: "a", "b", and the euro sign, a non-blank line that
\* normalize turns into the empty string.
UNameSet == {<<97>>, <<98>>, <<8364>>}

\* The years and words the suffixes are built from: "1", and "s" (leet "5").
YearSet == {<<49>>}
WordSet == {<<115>>}
MaxSuffixSource == 1

\* What an earlier run over other inputs (name "z", surname "z", no suffix)
\* left in the output files.
EarlierRun == [c \in Categories |-> SortSet(generate_usernames(<<122>>, <<122>>, {})[c])]

\* `for name in chunk: for surname in surnames` over the worker's own arguments.
UTotal(w) == Len(uw[w].names) * Len(uw[w].surnames)

UName(w, k) == uw[w].names[((k - 1) \div Len(uw[w].surnames)) + 1]

USurname(w, k) == uw[w].surnames[((k - 1) % Len(uw[w].surnames)) + 1]

UInit ==
    /\ ENone
    /\ infiles \in
          [names : {Missing} \cup {FileOf(l) : l \in SeqsUpTo(UNameSet, MaxNames)},
           surnames : {Missing}
                        \cup {FileOf(l) : l \in SeqsUpTo(SurnameSet, MaxSurnames)},
           pets : {Missing, FileOf(<<>>)},
           words : {Missing}
                     \cup {FileOf(l) : l \in SeqsUpTo(WordSet, MaxSuffixSource)},
           years : {Missing}
                     \cup {FileOf(l) : l \in SeqsUpTo(YearSet, MaxSuffixSource)}]
    /\ names = <<>>
    /\ surnames = <<>>
    /\ sources = [pets |-> <<>>, years |-> <<>>, words |-> <<>>]
    /\ num_proc \in 1..MaxProc
    /\ ufiles \in {[c \in Categories |-> <<>>], EarlierRun}
    /\ prior = ufiles
    /\ chunks = <<>>
    /\ suffixes = {}
    /\ upc = "idle"
    /\ uw = <<>>
    /\ result_queue = <<>>
    /\ all_results = EmptyResult
    /\ received = 0
    /\ runs = 0
    /\ gpc = "idle"
    /\ checkpoint = [exists |-> FALSE, text |-> <<>>]
    /\ cutoff = << <<>>, <<>> >>
    /\ gfiles = [f \in GFileNames |-> <<>>]
    /\ gw = <<>>
    /\ given = {}
    /\ persisted = {}
    /\ start_text = <<>>

\* combine(), up to the start of the processes: the inputs are loaded, the
\* suffixes built, the names cut into chunks and one worker started per chunk.
\* read_file opens its path for reading: on a file that does not exist open
\* raises FileNotFoundError and combine ends there.
U_Combine ==
    /\ upc \in {"idle", "done"}
    /\ runs < MaxRuns
    /\ runs' = runs + 1
    /\ IF \E f \in InputFiles : ~infiles[f].exists
       THEN /\ upc' = "failed"
            /\ UNCHANGED <<names, surnames, sources, suffixes, chunks, uw,
                           result_queue, all_results, received, prior>>
       ELSE /\ names' = U_read_file(infiles.names.lines)
            /\ surnames' = U_read_file(infiles.surnames.lines)
            /\ sources' = [pets |-> U_read_file(infiles.pets.lines),
                           years |-> U_read_file(infiles.years.lines),
                           words |-> U_read_file(infiles.words.lines)]
            /\ suffixes' = build_suffixes(sources'.pets, sources'.years,
                                          sources'.words)
            /\ chunks' = Chunks(names', num_proc)
            /\ uw' = [w \in 1..Len(chunks') |->
                        [pc |-> "run", k |-> 1,
                         names |-> SpawnArgs(chunks', surnames')[w].names,
                         surnames |-> SpawnArgs(chunks', surnames')[w].surnames,
                         result |-> EmptyResult]]
            /\ result_queue' = <<>>
            /\ all_results' = EmptyResult
            /\ received' = 0
            /\ prior' = ufiles
            /\ upc' = "collect"
    /\ UNCHANGED <<num_proc, ufiles, gvars, evars, infiles>>

\* worker, one pair: the pair's categories join the worker's result.
U_WorkerPair(w) ==
    /\ upc # "idle" /\ uw[w].pc = "run" /\ uw[w].k <= UTotal(w)
    /\ ~GenerateRaises(UName(w, uw[w].k), USurname(w, uw[w].k))
    /\ uw' = [uw EXCEPT
                ![w].result = Merge(@, generate_usernames(UName(w, uw[w].k),
                                                          USurname(w, uw[w].k),
                                                          suffixes)),
                ![w].k = @ + 1]
    /\ UNCHANGED <<names, surnames, num_proc, chunks, sources, suffixes, upc,
                   result_queue, all_results, received, ufiles, prior, runs, gvars, evars, infiles>>

\* worker, a pair on which generate_usernames raises IndexError: the process
\* ends with nothing put on the queue.
U_WorkerRaise(w) ==
    /\ upc # "idle" /\ uw[w].pc = "run" /\ uw[w].k <= UTotal(w)
    /\ GenerateRaises(UName(w, uw[w].k), USurname(w, uw[w].k))
    /\ uw' = [uw EXCEPT ![w].pc = "raised"]
    /\ UNCHANGED <<names, surnames, num_proc, chunks, sources, suffixes, upc,
                   result_queue, all_results, received, ufiles, prior, runs, gvars, evars, infiles>>

\* worker, out_q.put(result) after its loops.
U_WorkerPut(w) ==
    /\ upc # "idle" /\ uw[w].pc = "run" /\ uw[w].k > UTotal(w)
    /\ result_queue' = Append(result_queue, uw[w].result)
    /\ uw' = [uw EXCEPT ![w].pc = "done"]
    /\ UNCHANGED <<names, surnames, num_proc, chunks, sources, suffixes, upc,
                   all_results, received, ufiles, prior, runs, gvars, evars, infiles>>

\* combine, one result_queue.get() of the loop over the processes.
U_Get ==
    /\ upc = "collect"
    /\ received < Len(chunks)
    /\ result_queue # <<>>
    /\ all_results' = Merge(all_results, Head(result_queue))
    /\ result_queue' = Tail(result_queue)
    /\ received' = received + 1
    /\ UNCHANGED <<names, surnames, num_proc, chunks, sources, suffixes, upc, uw,
                   ufiles, prior, runs, gvars, evars, infiles>>

\* combine, the loop over the processes done and every p.join() returned.
U_Join ==
    /\ upc = "collect"
    /\ received = Len(chunks)
    /\ \A w \in DOMAIN uw : uw[w].pc \in {"done", "raised"}
    /\ upc' = "write_formal"
    /\ UNCHANGED <<names, surnames, num_proc, chunks, sources, suffixes, uw,
                   result_queue, all_results, received, ufiles, prior, runs, gvars, evars, infiles>>

\* A write that opens the category file with "a" and adds the entries it does
\* not hold yet.
U_WriteFileAppend(cat) ==
    /\ upc = "write_" \o cat
    /\ ufiles' = [ufiles EXCEPT
                    ![cat] = @ \o SortSet(all_results[cat] \ SeqToSet(@))]
    /\ upc' = CASE cat = "formal" -> "write_neutral"
                [] cat = "neutral" -> "write_gamer"
                [] cat = "gamer" -> "done"
    /\ UNCHANGED <<names, surnames, num_proc, chunks, sources, suffixes, uw,
                   result_queue, all_results, received, prior, runs, gvars, evars,
                   infiles>>

\* combine, one category file opened with "w" and written sorted.
U_WriteFile(cat) ==
    /\ upc = "write_" \o cat
    /\ ufiles' = [ufiles EXCEPT ![cat] = SortSet(all_results[cat])]
    /\ upc' = CASE cat = "formal" -> "write_neutral"
                [] cat = "neutral" -> "write_gamer"
                [] cat = "gamer" -> "done"
    /\ UNCHANGED <<names, surnames, num_proc, chunks, sources, suffixes, uw,
                   result_queue, all_results, received, prior, runs, gvars, evars, infiles>>

UNext ==
    \/ U_Combine
    \/ U_Get
    \/ U_Join
    \/ \E cat \in Categories : U_WriteFile(cat)
    \/ \E w \in DOMAIN uw : U_WorkerPair(w)
    \/ \E w \in DOMAIN uw : U_WorkerRaise(w)
    \/ \E w \in DOMAIN uw : U_WorkerPut(w)

SpecGen == UInit /\ [][UNext]_vars

\* ----------------------------------------------- username_generator: properties
UWriting == upc \in {"write_formal", "write_neutral", "write_gamer", "done"}

\* The union, over every pair of names x surnames, of one category.
UnionOfPairs(cat) ==
    UNION {generate_usernames(names[p[1]], surnames[p[2]], suffixes)[cat] :
              p \in AllPairs}

\* C5: the write of each category file is append-only and idempotent: after a
\* run every line the file held before the run is still in it, no line is in it
\* twice, and a second run over the same inputs leaves the same set of lines.
C5_AppendOnlyIdempotentFiles ==
    upc = "done" =>
        \A c \in Categories :
            /\ SeqToSet(prior[c]) \subseteq SeqToSet(ufiles[c])
            /\ NoRepeats(ufiles[c])
            /\ runs >= 2 => SeqToSet(ufiles[c]) = SeqToSet(prior[c])

\* C8: no output file is written before the result of every started worker was
\* taken from the queue, and once written each category file holds exactly the
\* union of that category over every pair of names x surnames.
C8_MergeIsUnionOfAllWorkers ==
    /\ (UWriting \/ ufiles # prior) =>
          /\ received = Len(uw)
          /\ result_queue = <<>>
          /\ \A w \in DOMAIN uw : uw[w].pc = "done"
    /\ upc = "done" =>
          \A c \in Categories : SeqToSet(ufiles[c]) = UnionOfPairs(c)

\* A finished run of two workers whose results differ, with suffixes, in which
\* the second worker's result was taken while the first was still running.
C8_Witness ==
    /\ upc = "done"
    /\ Len(uw) = 2
    /\ suffixes # {}
    /\ uw[1].result.gamer # uw[2].result.gamer
    /\ uw[1].result.formal # {} /\ uw[2].result.formal # {}
    /\ ufiles.gamer # <<>>

\* C15: a missing input file is not an error: once combine has loaded its
\* inputs every input file exists (a missing one was created empty) and the run
\* has not failed.
C15_MissingInputIsEmptyList ==
    runs >= 1 => /\ upc # "failed"
                 /\ \A f \in InputFiles : infiles[f].exists

\* C16: with an empty suffix set and an empty surname list, for every name
\* list, no worker fails, every worker's ResultSet is empty, the run is never
\* stuck before its end and at the end every output file is empty.
C16_EmptyInputsEmptyFiles ==
    (upc \notin {"idle", "failed"} /\ surnames = <<>> /\ suffixes = {}) =>
        /\ \A w \in DOMAIN uw : uw[w].pc # "raised" /\ uw[w].result = EmptyResult
        /\ \A k \in DOMAIN result_queue : result_queue[k] = EmptyResult
        /\ all_results = EmptyResult
        /\ upc # "done" => ENABLED UNext
        /\ upc = "done" => \A c \in Categories : ufiles[c] = <<>>

\* A finished run over two names, one of them a name normalize empties, with no
\* surname and no suffix, started on output files that held earlier lines.
C16_Witness ==
    /\ upc = "done"
    /\ surnames = <<>> /\ suffixes = {}
    /\ Len(names) = 2 /\ Len(uw) = 2
    /\ \E k \in DOMAIN names : normalize(names[k]) = <<>>
    /\ prior.formal # <<>>
    /\ received = 2

\* The run with its processes scheduled: the merger (combine after the start of
\* the processes) and every worker process take their next step when they can.
U_Merger == U_Get \/ U_Join \/ \E cat \in Categories : U_WriteFile(cat)

U_Worker(w) ==
    /\ w \in DOMAIN uw
    /\ (U_WorkerPair(w) \/ U_WorkerRaise(w) \/ U_WorkerPut(w))

\* Runs over up to MaxNames names out of "a" and the euro sign, the surname "x"
\* and no suffix, on empty output files.
LInit ==
    /\ ENone
    /\ infiles \in
          [names : {FileOf(l) : l \in SeqsUpTo({<<97>>, <<8364>>}, MaxNames)},
           surnames : {FileOf(<< <<120>> >>)},
           pets : {FileOf(<<>>)},
           words : {FileOf(<<>>)},
           years : {FileOf(<<>>)}]
    /\ names = <<>>
    /\ surnames = <<>>
    /\ sources = [pets |-> <<>>, years |-> <<>>, words |-> <<>>]
    /\ num_proc \in 1..MaxProc
    /\ ufiles = [c \in Categories |-> <<>>]
    /\ prior = ufiles
    /\ chunks = <<>>
    /\ suffixes = {}
    /\ upc = "idle"
    /\ uw = <<>>
    /\ result_queue = <<>>
    /\ all_results = EmptyResult
    /\ received = 0
    /\ runs = 0
    /\ gpc = "idle"
    /\ checkpoint = [exists |-> FALSE, text |-> <<>>]
    /\ cutoff = << <<>>, <<>> >>
    /\ gfiles = [f \in GFileNames |-> <<>>]
    /\ gw = <<>>
    /\ given = {}
    /\ persisted = {}
    /\ start_text = <<>>

SpecGenFair ==
    /\ LInit
    /\ [][UNext]_vars
    /\ WF_vars(U_Merger)
    /\ \A w \in 1..MaxNames : WF_vars(U_Worker(w))

\* C18: every run of combine that started its workers eventually ends with the
\* output files written: it does not stay blocked on the queue or on a join.
C18_RunEventuallyWrites == (upc = "collect") ~> (upc = "done")

\* ---------------------------------------------------- partitioning: properties
MaxPartNames == 5
MaxPartProc == 3

\* The partition alone: the inputs, and the step of either combine that cuts
\* the names into chunks and starts the workers.
PInit ==
    /\ ENone
    /\ names \in SeqsUpTo(NameSet, MaxPartNames)
    /\ surnames \in SeqsUpTo(SurnameSet, 1)
    /\ num_proc \in 1..MaxPartProc
    /\ infiles = [f \in InputFiles |->
                    CASE f = "names" -> FileOf(names)
                      [] f = "surnames" -> FileOf(surnames)
                      [] OTHER -> FileOf(<<>>)]
    /\ sources = [pets |-> <<>>, years |-> <<>>, words |-> <<>>]
    /\ ufiles = [c \in Categories |-> <<>>]
    /\ prior = ufiles
    /\ chunks = <<>>
    /\ suffixes = {}
    /\ upc = "idle"
    /\ uw = <<>>
    /\ result_queue = <<>>
    /\ all_results = EmptyResult
    /\ received = 0
    /\ runs = 0
    /\ gpc = "idle"
    /\ checkpoint = [exists |-> FALSE, text |-> <<>>]
    /\ cutoff = << <<>>, <<>> >>
    /\ gfiles = [f \in GFileNames |-> <<>>]
    /\ gw = <<>>
    /\ given = {}
    /\ persisted = {}
    /\ start_text = <<>>

PNext == U_Combine \/ G_Combine

SpecPartition == PInit /\ [][PNext]_vars

CeilDiv(a, b) == (a + b - 1) \div b

Started == gpc = "running" \/ upc = "collect"

\* C9: the chunks, concatenated in order, are the name list, and every worker
\* is started with its chunk and the whole surname list.
C9_ChunksCoverNamesInOrder ==
    Started =>
        /\ Flatten(chunks) = names
        /\ gpc = "running" =>
              /\ Len(gw) = Len(chunks)
              /\ \A w \in DOMAIN gw :
                    gw[w].names = chunks[w] /\ gw[w].surnames = surnames
        /\ upc = "collect" =>
              /\ Len(uw) = Len(chunks)
              /\ \A w \in DOMAIN uw :
                    uw[w].names = chunks[w] /\ uw[w].surnames = surnames

\* Both programs started their workers on a name list that does not divide
\* evenly: several chunks, the last one shorter.
C9_Witness ==
    /\ gpc = "running" /\ upc = "collect"
    /\ Len(chunks) >= 2
    /\ Len(chunks[Len(chunks)]) < Len(chunks[1])
    /\ surnames # <<>>

\* C10: there are at most num_proc chunks (and worker processes), and every
\* chunk but the last has ceil(len(names) / num_proc) names.
C10_AtMostNumProcChunksOfCeilSize ==
    Started =>
        /\ Len(chunks) <= num_proc
        /\ \A c \in 1..(Len(chunks) - 1) :
              Len(chunks[c]) = CeilDiv(Len(names), num_proc)

\* ------------------------------------------- generate_usernames, step by step
MaxCalls == 2
LongLen == 20

\* "Jane", "Doe", "2021" and "dragon"; a name and a surname of LongLen letters
\* ("m...", "w...") and a suffix twice as long ("q..."), so that the length limit
\* cuts; "e" with an acute accent, which normalize folds to "e", and the euro
\* sign, which it drops.
Jane == <<74, 97, 110, 101>>
Doe == <<68, 111, 101>>
Y2021 == <<50, 48, 50, 49>>
Dragon == <<100, 114, 97, 103, 111, 110>>
LongName == [k \in 1..LongLen |-> 109]
LongSurname == [k \in 1..LongLen |-> 119]
LongSuffix == [k \in 1..(2 * LongLen) |-> 113]

ENameSet == {Jane, LongName, <<233>>, <<8364>>}
ESurnameSet == {Doe, LongSurname}
ESuffixSets == {{}, {Y2021, Dragon}, {LongSuffix}}

\* list(set(suffixes)): the elements of the set, once each, in some order.
Orderings(S) == {o \in [1..Cardinality(S) -> S] : SeqToSet(o) = S}

EInit ==
    /\ infiles = NoInputFiles
    /\ e_name \in ENameSet
    /\ e_surname \in ESurnameSet
    /\ e_suffixes \in ESuffixSets
    /\ e_order = <<>>
    /\ e_calls = 0
    /\ e_pc = "idle"
    /\ e_bases = <<>>
    /\ e_i = 1 /\ e_j = 1 /\ e_n = 1
    /\ e_results = EmptyResult
    /\ e_first = <<>>
    /\ names = <<>>
    /\ surnames = <<>>
    /\ num_proc = 1
    /\ chunks = <<>>
    /\ runs = 0
    /\ gpc = "idle"
    /\ checkpoint = [exists |-> FALSE, text |-> <<>>]
    /\ cutoff = << <<>>, <<>> >>
    /\ gfiles = [f \in GFileNames |-> <<>>]
    /\ gw = <<>>
    /\ given = {}
    /\ persisted = {}
    /\ start_text = <<>>
    /\ sources = [pets |-> <<>>, years |-> <<>>, words |-> <<>>]
    /\ suffixes = {}
    /\ upc = "idle"
    /\ uw = <<>>
    /\ result_queue = <<>>
    /\ all_results = EmptyResult
    /\ received = 0
    /\ ufiles = [c \in Categories |-> <<>>]
    /\ prior = [c \in Categories |-> <<>>]

\* generate_usernames is entered: results is made, name and surname are
\* normalized, and name[0] / surname[0] either raise or base_variants is built.
\* The suffixes come in the order their list has for this call.
E_Call ==
    /\ e_pc \in {"idle", "returned"}
    /\ e_calls < MaxCalls
    /\ e_calls' = e_calls + 1
    /\ e_first' = IF e_pc = "returned" THEN <<e_order, e_results>> ELSE e_first
    /\ e_results' = EmptyResult
    /\ e_order' \in Orderings(e_suffixes)
    /\ IF GenerateRaises(e_name, e_surname)
       THEN e_pc' = "raised" /\ e_bases' = <<>>
       ELSE e_pc' = "base" /\ e_bases' = BaseVariants(e_name, e_surname)
    /\ e_i' = 1 /\ e_j' = 1 /\ e_n' = 1
    /\ UNCHANGED <<e_name, e_surname, e_suffixes, names, surnames, num_proc, chunks,
                   runs, gvars, uvars>>

\* `for a, b in base_variants: for sep in SEPARATORS:` moves on to the next
\* separator, then to the next base, and past the last base the function returns.
NextSeparator ==
    /\ e_n' = 1
    /\ IF e_j < Len(SEPARATORS)
       THEN e_j' = e_j + 1 /\ e_i' = e_i /\ e_pc' = "base"
       ELSE IF e_i < Len(e_bases)
       THEN e_j' = 1 /\ e_i' = e_i + 1 /\ e_pc' = "base"
       ELSE e_j' = e_j /\ e_i' = e_i /\ e_pc' = "returned"

\* The body of the separator loop up to the suffix loop: base is formed and
\* classified.
E_Base ==
    /\ e_pc = "base"
    /\ e_results' = AddBase(e_results, e_bases[e_i][1], e_bases[e_i][2],
                            SEPARATORS[e_j])
    /\ IF e_order = <<>>
       THEN NextSeparator
       ELSE e_pc' = "suffix" /\ UNCHANGED <<e_i, e_j, e_n>>
    /\ UNCHANGED <<e_name, e_surname, e_suffixes, e_order, e_calls, e_bases,
                   e_first, names, surnames, num_proc, chunks, runs, gvars, uvars>>

\* One pass of `for suffix in suffixes:`.
E_Suffix ==
    /\ e_pc = "suffix"
    /\ e_results' = AddSuffix(e_results,
                              BaseOf(e_bases[e_i][1], e_bases[e_i][2],
                                     SEPARATORS[e_j]),
                              e_bases[e_i][1], SEPARATORS[e_j], e_order[e_n])
    /\ IF e_n < Len(e_order)
       THEN e_n' = e_n + 1 /\ UNCHANGED <<e_pc, e_i, e_j>>
       ELSE NextSeparator
    /\ UNCHANGED <<e_name, e_surname, e_suffixes, e_order, e_calls, e_bases,
                   e_first, names, surnames, num_proc, chunks, runs, gvars, uvars>>

ENext == E_Call \/ E_Base \/ E_Suffix

SpecExpand == EInit /\ [][ENext]_vars

\* ---------------------------------------------- generate_usernames: properties
\* The first limit characters, lowercased.
Truncate(text, limit) == Lower(SubSeq(text, 1, Min(Len(text), limit)))

\* The 8 bases of a normalized name n and surname s.
RuleBases(n, s) ==
    << <<n, s>>, <<s, n>>, << <<n[1]>>, s>>, <<n, <<s[1]>> >>,
       << <<n[1]>>, <<s[1]>> >>, <<to_leet(n), to_leet(s)>>,
       <<n, <<>> >>, <<s, <<>> >> >>

\* t occurs in s.
HasSub(s, t) == \E k \in 0..(Len(s) - Len(t)) : SubSeq(s, k + 1, k + Len(t)) = t

\* C11: what generate_usernames returns is exactly the sets of the reference
\* rule: over the 8 bases (a, b) and the 7 separators, truncate(a+sep+b, 32) is
\* in formal when sep holds "." or is empty and in neutral otherwise, and for
\* each suffix truncate(base+suffix, 32) is in neutral and
\* truncate(sep+leet(a)+sep+suffix+sep, 32) in gamer, and nothing else is in the
\* three sets; for Jane, Doe, {2021, dragon}: janedoe and jane.doe are formal,
\* jane_doe2021 is neutral and a gamer string holds j4n3 and dragon.
C11_ReturnsReferenceRuleSets ==
    e_pc = "returned" =>
        LET rb == RuleBases(normalize(e_name), normalize(e_surname))
            P == (1..8) \X (1..7)
            a(p) == rb[p[1]][1]
            b(p) == rb[p[1]][2]
            sep(p) == SEPARATORS[p[2]]
            dotOrEmpty(p) == Contains(sep(p), 46) \/ sep(p) = <<>>
            base(p) == Truncate(a(p) \o sep(p) \o b(p), 32)
            F == {base(p) : p \in {q \in P : dotOrEmpty(q)}}
            N == {base(p) : p \in {q \in P : ~dotOrEmpty(q)}}
                    \cup {Truncate(base(p[1]) \o p[2], 32) : p \in P \X e_suffixes}
            G == {Truncate(sep(p[1]) \o to_leet(a(p[1])) \o sep(p[1]) \o p[2]
                              \o sep(p[1]), 32) : p \in P \X e_suffixes}
        IN  /\ Len(rb) = 8 /\ Len(SEPARATORS) = 7
            /\ e_results = [formal |-> F, neutral |-> N, gamer |-> G]
            /\ e_results = generate_usernames(e_name, e_surname, e_suffixes)
            /\ (e_name = Jane /\ e_surname = Doe /\ e_suffixes = {Y2021, Dragon}) =>
                  /\ <<106, 97, 110, 101, 100, 111, 101>> \in e_results.formal
                  /\ <<106, 97, 110, 101, 46, 100, 111, 101>> \in e_results.formal
                  /\ <<106, 97, 110, 101, 95, 100, 111, 101, 50, 48, 50, 49>>
                        \in e_results.neutral
                  /\ \E g \in e_results.gamer :
                        HasSub(g, <<106, 52, 110, 51>>) /\ HasSub(g, Dragon)

\* A call that returned for Jane, Doe and the suffixes 2021 and dragon.
C11_Witness ==
    /\ e_pc = "returned"
    /\ e_name = Jane /\ e_surname = Doe /\ e_suffixes = {Y2021, Dragon}
    /\ e_results.formal # {} /\ e_results.neutral # {} /\ e_results.gamer # {}

\* C12: every candidate string in every category of a ResultSet has at most 32
\* characters, whatever the lengths of the name, the surname and the suffixes:
\* at every pass of the loops and at the return.
C12_CandidatesAtMost32 ==
    \A c \in Categories : \A u \in e_results[c] : Len(u) <= 32

\* A call that returned for a name and a surname of LongLen letters and a suffix
\* of twice as many: in every category some candidate was cut to 32 characters.
C12_Witness ==
    /\ e_pc = "returned"
    /\ Len(e_name) + Len(e_surname) > 32
    /\ \E x \in e_suffixes : Len(x) > 32
    /\ \A c \in Categories : \E u \in e_results[c] : Len(u) = 32

\* C17: two calls of generate_usernames with the same name, surname and
\* suffixes, whatever order the suffixes come in, return equal formal, neutral
\* and gamer sets, and no step of a call changes its arguments or any state
\* outside the call.
C17_SameArgumentsSameResult ==
    /\ []((e_pc = "returned" /\ e_calls = 2) => e_results = e_first[2])
    /\ [][UNCHANGED <<e_name, e_surname, e_suffixes, names, surnames, num_proc,
                      chunks, runs, gvars, uvars>>]_vars

\* Two calls returned, on two suffixes taken in one order by the first call and
\* in the other order by the second.
C17_Witness ==
    /\ e_pc = "returned" /\ e_calls = 2
    /\ Cardinality(e_suffixes) = 2
    /\ e_first[1] # e_order
    /\ e_results.gamer # {}

\* C19: generate_usernames is total: every call, also one on a name whose
\* normalized form is empty, derives 8 bases and does not fail.
C19_ExpandIsTotal ==
    e_calls >= 1 => e_pc # "raised" /\ Len(e_bases) = 8

====
